---- MODULE Spec2Model ----
(***************************************************************************)
(* Verification model of love2dishtech/data-structures.                    *)
(*                                                                         *)
(* BinaryHeapQuickRemovals (src/unnamed/part_000): an array backed binary  *)
(* min-heap with a hash index  value -> Set<position>.                     *)
(*                                                                         *)
(* The JavaScript array `heap` is modelled as a total function over a      *)
(* window of integer positions; a slot that was never written reads as     *)
(* Undefined.  A JavaScript Set iterates in insertion order, so a position *)
(* set is modelled as a duplicate free sequence: add appends when absent,  *)
(* delete removes, and values().next().value is the head.                  *)
(*                                                                         *)
(* UnionFind (src/com/love2dishtech/datastructures/unionfind/UnionFind.ts):*)
(* the arrays id and componentLength are functions over 0..numNodes-1.     *)
(* The two classes do not share state: a specification of one keeps the    *)
(* fields of the other as its constructor left them.                       *)
(*                                                                         *)
(* BinaryHeap (src/com/love2dishtech/datastructures/priorityqueue/         *)
(* BinaryHeap.ts): the same heap without the index; find scans the         *)
(* occupied slots.  Its fields are pheap, pheapCapacity and pheapSize, and *)
(* the specifications of the pair hand every call to one object of each    *)
(* class built from the same input.                                        *)
(***************************************************************************)
EXTENDS Integers, Sequences, FiniteSets, TLC

\* ---------------------------------------------------------------- bounds
\* element values are 1..MaxVal
MaxVal == 3
\* longest input sequence handed to the constructor before a sequence of calls
MaxBulk == 4
\* longest input sequence handed to the constructor of a heap that is drained
MaxDrain == 6
\* number of completed add/poll/remove/clear calls explored after construction
MaxCalls == 3
\* largest size handed to the UnionFind constructor
MaxNodes == 4
\* how many ids past the last node the calls with out-of-range ids use
MaxBeyond == 2
\* largest size of an object that is called with out-of-range ids
MaxWide == 2

\* ------------------------------------------------------------- constants
DEFAULT_CAPACITY == 64
Undefined == 0

Values == 1..MaxVal
MinPos == 0 - (2 * MaxCalls + 2)
MaxPos == (IF MaxDrain > MaxBulk THEN MaxDrain ELSE MaxBulk) + MaxCalls
Positions == MinPos..MaxPos

VARIABLES heap, heapIndex, heapCapacity, heapSize, bag, last, input, polled, calls

\* UnionFind: its four fields, the caller's record of the pairs unified so far
\* (as the partition they generate) and the outcome of the latest call
VARIABLES id, componentLength, numNodes, numComponents, joined, ulast

\* BinaryHeap: its three fields and the caller's record
VARIABLES pheap, pheapCapacity, pheapSize, pbag, plast, pinput, pcalls

heapVars == <<heap, heapIndex, heapCapacity, heapSize, bag, last, input, polled, calls>>

ufVars == <<id, componentLength, numNodes, numComponents, joined, ulast>>

plainVars == <<pheap, pheapCapacity, pheapSize, pbag, plast, pinput, pcalls>>

vars == <<heap, heapIndex, heapCapacity, heapSize, bag, last, input, polled, calls,
          id, componentLength, numNodes, numComponents, joined, ulast,
          pheap, pheapCapacity, pheapSize, pbag, plast, pinput, pcalls>>

\* the four fields of one BinaryHeapQuickRemovals object, as a record
This == [heap |-> heap, heapIndex |-> heapIndex,
         heapCapacity |-> heapCapacity, heapSize |-> heapSize]

\* the same four fields after the step
After == [heap |-> heap', heapIndex |-> heapIndex',
          heapCapacity |-> heapCapacity', heapSize |-> heapSize']

\* ------------------------------------------------------ JavaScript Set<number>
SeqRange(s) == {s[i] : i \in 1..Len(s)}

SetAdd(s, p) == IF p \in SeqRange(s) THEN s ELSE Append(s, p)

SetDelete(s, p) == SelectSeq(s, LAMBDA q : q # p)

\* ------------------------------------------------------ JavaScript array
\* heap[i]: a slot never written (or outside the window) reads as undefined
At(h, i) == IF i \in DOMAIN h THEN h[i] ELSE Undefined

EmptyArray == [i \in Positions |-> Undefined]

EmptyIndex == [v \in {} |-> <<>>]

\* ------------------------------------------------------ index maintenance
addIndex(idx, element, position) ==
    IF element \in DOMAIN idx
    THEN [idx EXCEPT ![element] = SetAdd(@, position)]
    ELSE [v \in (DOMAIN idx) \cup {element} |->
             IF v = element THEN <<position>> ELSE idx[v]]

updateIndex(idx, element, oldPos, newPos) ==
    IF element \in DOMAIN idx
    THEN [idx EXCEPT ![element] = SetAdd(SetDelete(@, oldPos), newPos)]
    ELSE idx

\* removeIndex that drops the key when its last position goes
removeIndexDropKey(idx, element, position) ==
    IF element \in DOMAIN idx
    THEN IF SetDelete(idx[element], position) = <<>>
         THEN [v \in (DOMAIN idx) \ {element} |-> idx[v]]
         ELSE [idx EXCEPT ![element] = SetDelete(@, position)]
    ELSE idx

\* removeIndex that deletes nothing
removeIndexKept(idx, element, position) == idx

removeIndex(idx, element, position) ==
    IF element \in DOMAIN idx
    THEN [idx EXCEPT ![element] = SetDelete(@, position)]
    ELSE idx

\* ------------------------------------------------------ heap primitives
\* undefined < x and x < undefined are both false in JavaScript
less(st, left, right) ==
    LET l == At(st.heap, left)
        r == At(st.heap, right)
    IN  l # Undefined /\ r # Undefined /\ l < r

swap(st, source, dest) ==
    LET h1 == [st.heap EXCEPT ![source] = st.heap[dest], ![dest] = st.heap[source]]
        i1 == IF source < st.heapSize
              THEN updateIndex(st.heapIndex, h1[source], dest, source)
              ELSE st.heapIndex
        i2 == IF dest < st.heapSize
              THEN updateIndex(i1, h1[dest], source, dest)
              ELSE i1
    IN  [st EXCEPT !.heap = h1, !.heapIndex = i2]

RECURSIVE bubbleDown(_, _)
bubbleDown(st, idx) ==
    IF idx < st.heapSize
    THEN LET leftChild == idx * 2 + 1
             rightChild == idx * 2 + 2
         IN  IF rightChild < st.heapSize /\ less(st, rightChild, leftChild)
                    /\ less(st, rightChild, idx)
             THEN bubbleDown(swap(st, rightChild, idx), rightChild)
             ELSE IF leftChild < st.heapSize /\ less(st, leftChild, idx)
                  THEN bubbleDown(swap(st, leftChild, idx), leftChild)
                  ELSE st
    ELSE st

RECURSIVE bubbleUp(_, _)
bubbleUp(st, idx) ==
    IF idx # 0
    THEN LET parentIdx == (idx - 1) \div 2
         IN  IF less(st, idx, parentIdx)
             THEN bubbleUp(swap(st, idx, parentIdx), parentIdx)
             ELSE st
    ELSE st

RECURSIVE heapifyFrom(_, _)
heapifyFrom(st, i) ==
    IF i >= 0 THEN heapifyFrom(bubbleDown(st, i), i - 1) ELSE st

\* heapify that sinks the root only
heapifyRootOnly(st) == bubbleDown(st, 0)

heapify(st) == heapifyFrom(st, st.heapSize \div 2)

\* new Array(capacity) then forEach copy: forEach visits the array indices
\* 0..length-1 only, so properties at negative keys are not carried over
increaseHeapCapacity(st) ==
    [st EXCEPT !.heapCapacity = st.heapCapacity * 2,
               !.heap = [i \in Positions |-> IF i >= 0 THEN st.heap[i] ELSE Undefined]]

\* ------------------------------------------------------ construction
RECURSIVE loadIndex(_, _, _)
loadIndex(idx, elements, i) ==
    IF i > Len(elements) THEN idx
    ELSE loadIndex(addIndex(idx, elements[i], i - 1), elements, i + 1)

constructEmpty ==
    [heap |-> EmptyArray, heapIndex |-> EmptyIndex,
     heapCapacity |-> DEFAULT_CAPACITY, heapSize |-> 0]

constructFrom(elements) ==
    heapify([heap |-> [i \in Positions |->
                          IF i >= 0 /\ i < Len(elements) THEN elements[i + 1] ELSE Undefined],
             heapIndex |-> loadIndex(EmptyIndex, elements, 1),
             heapCapacity |-> Len(elements),
             heapSize |-> Len(elements)])

\* ------------------------------------------------------ public operations
isEmpty(st) == st.heapSize = 0

size(st) == st.heapSize

find(st, element) ==
    IF element \in DOMAIN st.heapIndex THEN st.heapIndex[element] ELSE <<>>

containsHashTableScan(st, element) == Len(find(st, element)) > 0

contains(st, element) == containsHashTableScan(st, element)

peekThrows(st) == isEmpty(st)

\* mutant of pollThrows: the emptiness check guards against negative sizes only
pollThrowsBelowZero(st) == st.heapSize < 0

peekValue(st) == At(st.heap, 0)

pollThrows(st) == isEmpty(st)

\* mutant of pollSwapped: heapSize is not decremented
pollSwappedNoShrink(st) == swap(st, 0, st.heapSize - 1)

\* poll, up to and including the shrink of heapSize
pollSwapped(st) ==
    LET s1 == swap(st, 0, st.heapSize - 1)
    IN  [s1 EXCEPT !.heapSize = s1.heapSize - 1]

\* mutant of poll: the new root is not sunk
pollNoSink(st) == pollSwapped(st)

poll(st) == bubbleDown(pollSwapped(st), 0)

\* add, up to and including the registration of the new element in the index
addPlaced(st, element) ==
    [st EXCEPT !.heap = [st.heap EXCEPT ![st.heapSize] = element],
               !.heapIndex = addIndex(st.heapIndex, element, st.heapSize)]

\* add, up to and including the swim pass
addSwam(st, element) == bubbleUp(addPlaced(st, element), st.heapSize)

add(st, element) ==
    LET s2 == addSwam(st, element)
        s3 == [s2 EXCEPT !.heapSize = s2.heapSize + 1]
    IN  IF s3.heapCapacity = s3.heapSize THEN increaseHeapCapacity(s3) ELSE s3

\* removeAt, up to and including the swap with the last occupied slot
removeAtSwapped(st, position, element) ==
    LET s1 == [st EXCEPT !.heapIndex = removeIndex(st.heapIndex, element, position)]
        s2 == [s1 EXCEPT !.heapSize = s1.heapSize - 1]
    IN  swap(s2, position, s2.heapSize)

\* removeAt, up to and including the sink pass
removeAtSank(st, position, element) ==
    bubbleDown(removeAtSwapped(st, position, element), position)

\* removeAt whose swim pass starts from the slot the removed element went to
removeAtSwimLast(st, position, element) ==
    bubbleUp(removeAtSank(st, position, element), st.heapSize - 1)

\* mutant of removeAt: the replacement is sunk but never moved up
removeAtNoSwim(st, position, element) == removeAtSank(st, position, element)

removeAt(st, position, element) ==
    bubbleUp(removeAtSank(st, position, element), position)

removeThrows(st, element) == Len(find(st, element)) = 0

remove(st, element) == removeAt(st, Head(find(st, element)), element)

clear(st) == [st EXCEPT !.heapSize = 0]

\* ====================================================== BinaryHeap
\* the three fields of one BinaryHeap object, as a record
Plain == [heap |-> pheap, heapCapacity |-> pheapCapacity, heapSize |-> pheapSize]

\* the same three fields after the step
PlainAfter == [heap |-> pheap', heapCapacity |-> pheapCapacity', heapSize |-> pheapSize']

bhLess(st, left, right) ==
    LET l == At(st.heap, left)
        r == At(st.heap, right)
    IN  l # Undefined /\ r # Undefined /\ l < r

bhSwap(st, source, dest) ==
    [st EXCEPT !.heap = [st.heap EXCEPT ![source] = st.heap[dest],
                                        ![dest] = st.heap[source]]]

RECURSIVE bhBubbleDown(_, _)
bhBubbleDown(st, idx) ==
    IF idx < st.heapSize
    THEN LET leftChild == idx * 2 + 1
             rightChild == idx * 2 + 2
         IN  IF rightChild < st.heapSize /\ bhLess(st, rightChild, leftChild)
                    /\ bhLess(st, rightChild, idx)
             THEN bhBubbleDown(bhSwap(st, rightChild, idx), rightChild)
             ELSE IF leftChild < st.heapSize /\ bhLess(st, leftChild, idx)
                  THEN bhBubbleDown(bhSwap(st, leftChild, idx), leftChild)
                  ELSE st
    ELSE st

RECURSIVE bhBubbleUp(_, _)
bhBubbleUp(st, idx) ==
    IF idx # 0
    THEN LET parentIdx == (idx - 1) \div 2
         IN  IF bhLess(st, idx, parentIdx)
             THEN bhBubbleUp(bhSwap(st, idx, parentIdx), parentIdx)
             ELSE st
    ELSE st

RECURSIVE bhHeapifyFrom(_, _)
bhHeapifyFrom(st, i) ==
    IF i >= 0 THEN bhHeapifyFrom(bhBubbleDown(st, i), i - 1) ELSE st

bhHeapify(st) == bhHeapifyFrom(st, st.heapSize \div 2)

bhIncreaseHeapCapacity(st) ==
    [st EXCEPT !.heapCapacity = st.heapCapacity * 2,
               !.heap = [i \in Positions |-> IF i >= 0 THEN st.heap[i] ELSE Undefined]]

bhConstructEmpty ==
    [heap |-> EmptyArray, heapCapacity |-> DEFAULT_CAPACITY, heapSize |-> 0]

bhConstructFrom(elements) ==
    bhHeapify([heap |-> [i \in Positions |->
                            IF i >= 0 /\ i < Len(elements) THEN elements[i + 1]
                            ELSE Undefined],
               heapCapacity |-> Len(elements),
               heapSize |-> Len(elements)])

bhIsEmpty(st) == st.heapSize = 0

bhSize(st) == st.heapSize

\* the first occupied slot holding element, or -1
bhFind(st, element) ==
    LET hits == {i \in Positions : 0 <= i /\ i < st.heapSize /\ st.heap[i] = element}
    IN  IF hits = {} THEN 0 - 1
        ELSE CHOOSE i \in hits : \A j \in hits : i <= j

bhContainsLinearScan(st, element) == bhFind(st, element) >= 0

bhContains(st, element) == bhContainsLinearScan(st, element)

bhPeekThrows(st) == bhIsEmpty(st)

bhPeekValue(st) == At(st.heap, 0)

bhPollThrows(st) == bhIsEmpty(st)

\* poll, up to and including the shrink of heapSize
bhPollSwapped(st) ==
    LET s1 == bhSwap(st, 0, st.heapSize - 1)
    IN  [s1 EXCEPT !.heapSize = s1.heapSize - 1]

\* poll that leaves the new root where the swap put it
bhPollNoSink(st) == bhPollSwapped(st)

bhPoll(st) == bhBubbleDown(bhPollSwapped(st), 0)

\* add, up to and including the write of the new element
bhAddPlaced(st, element) ==
    [st EXCEPT !.heap = [st.heap EXCEPT ![st.heapSize] = element]]

\* add, up to and including the swim pass
bhAddSwam(st, element) == bhBubbleUp(bhAddPlaced(st, element), st.heapSize)

bhAdd(st, element) ==
    LET s2 == bhAddSwam(st, element)
        s3 == [s2 EXCEPT !.heapSize = s2.heapSize + 1]
    IN  IF s3.heapCapacity = s3.heapSize THEN bhIncreaseHeapCapacity(s3) ELSE s3

\* remoteAt, up to and including the shrink of heapSize
bhRemoteAtSwapped(st, idx) ==
    LET s1 == bhSwap(st, idx, st.heapSize - 1)
    IN  [s1 EXCEPT !.heapSize = s1.heapSize - 1]

\* remoteAt, up to and including the swim pass
bhRemoteAtSwam(st, idx) == bhBubbleUp(bhRemoteAtSwapped(st, idx), idx)

bhRemoteAt(st, idx) == bhBubbleDown(bhRemoteAtSwam(st, idx), idx)

bhRemoveThrows(st, element) == bhFind(st, element) = 0 - 1

bhRemove(st, element) == bhRemoteAt(st, bhFind(st, element))

bhClear(st) == [st EXCEPT !.heapSize = 0]

\* ====================================================== UnionFind
\* the four fields of one UnionFind object, as a record
Self == [id |-> id, componentLength |-> componentLength,
         numNodes |-> numNodes, numComponents |-> numComponents]

\* what a call returns when it returns no node; also JavaScript's undefined
\* as an element of id and, since the key -1 is never used (a negative node
\* throws before any array access), as the array key "undefined"
NoNode == 0 - 1

\* the result of undefined + 1
NaN == 0 - 2

\* this.id[k]: a key never written reads as undefined
idAt(ids, k) == IF k \in DOMAIN ids THEN ids[k] ELSE NoNode

\* this.componentLength[k]
lengthAt(len, k) == IF k \in DOMAIN len THEN len[k] ELSE NoNode

\* array[k] = v: a write to a key the array does not have yet adds the key
setAt(array, k, v) ==
    [x \in (DOMAIN array) \cup {k} |-> IF x = k THEN v ELSE array[x]]

\* a > b on lengths: false when either side is undefined or NaN
greater(a, b) == a >= 0 /\ b >= 0 /\ a > b

\* a + b on lengths: NaN when either side is undefined or NaN
plus(a, b) == IF a >= 0 /\ b >= 0 THEN a + b ELSE NaN

ufConstructThrows(n) == n <= 0

ufConstruct(n) ==
    [id |-> [i \in 0..n - 1 |-> i],
     componentLength |-> [i \in 0..n - 1 |-> 1],
     numNodes |-> n,
     numComponents |-> n]

ufFindThrows(node) == node < 0

\* the root walk of find: while (root !== this.id[root]) root = this.id[root]
RECURSIVE walkToRoot(_, _)
walkToRoot(ids, root) ==
    IF root = idAt(ids, root) THEN root ELSE walkToRoot(ids, idAt(ids, root))

\* find that stops at the parent of node
ufFindParent(st, node) == idAt(st.id, node)

\* the value find(node) returns
ufFindRoot(st, node) == walkToRoot(st.id, idAt(st.id, node))

\* the loop of compressPaths, entered with id[node] already set to root
RECURSIVE compressLoop(_, _, _, _)
compressLoop(ids, node, parent, root) ==
    IF parent # node
    THEN compressLoop(setAt(ids, parent, root), parent, idAt(ids, parent), root)
    ELSE ids

\* compressPaths that rewrites nothing
compressPathsNone(ids, node, root) == ids

compressPaths(ids, node, root) ==
    compressLoop(setAt(ids, node, root), node, idAt(ids, node), root)

\* the object after find(node)
ufFind(st, node) ==
    [st EXCEPT !.id = compressPaths(st.id, node, ufFindRoot(st, node))]

unifyThrows(nodeOne, nodeTwo) == nodeOne < 0 \/ nodeTwo < 0

\* unify after its two find calls: the object, parentOne and parentTwo
unifyFound(st, nodeOne, nodeTwo) == ufFind(ufFind(st, nodeOne), nodeTwo)

parentOne(st, nodeOne, nodeTwo) == ufFindRoot(st, nodeOne)

parentTwo(st, nodeOne, nodeTwo) == ufFindRoot(ufFind(st, nodeOne), nodeTwo)

\* unify without the parentOne === parentTwo return
unifyMergesAlways(st, nodeOne, nodeTwo) == TRUE

\* does unify(nodeOne, nodeTwo) go past the parentOne === parentTwo return
unifyMerges(st, nodeOne, nodeTwo) ==
    parentOne(st, nodeOne, nodeTwo) # parentTwo(st, nodeOne, nodeTwo)

\* the root picked when the comparison is >= instead of >
mergedRootTieFirst(st, nodeOne, nodeTwo) ==
    LET s == unifyFound(st, nodeOne, nodeTwo)
        p1 == parentOne(st, nodeOne, nodeTwo)
        p2 == parentTwo(st, nodeOne, nodeTwo)
    IN  IF ~greater(lengthAt(s.componentLength, p2), lengthAt(s.componentLength, p1))
        THEN p1 ELSE p2

\* the root picked by  componentLength[parentOne] > componentLength[parentTwo]
mergedRoot(st, nodeOne, nodeTwo) ==
    LET s == unifyFound(st, nodeOne, nodeTwo)
        p1 == parentOne(st, nodeOne, nodeTwo)
        p2 == parentTwo(st, nodeOne, nodeTwo)
    IN  IF greater(lengthAt(s.componentLength, p1), lengthAt(s.componentLength, p2))
        THEN p1 ELSE p2

\* unify returning the root it found for its first argument
unifyRootFirst(st, nodeOne, nodeTwo) == parentOne(st, nodeOne, nodeTwo)

\* the value unify(nodeOne, nodeTwo) returns
unifyRoot(st, nodeOne, nodeTwo) ==
    IF unifyMerges(st, nodeOne, nodeTwo)
    THEN mergedRoot(st, nodeOne, nodeTwo)
    ELSE ufFindRoot(unifyFound(st, nodeOne, nodeTwo), nodeOne)

\* an attachment that also points the surviving root at the other one
attachBoth(ids, p1, p2, m) == setAt(setAt(ids, p1, p2), p2, p1)

\* id after  this.id[parentTwo] = parentOne  or  this.id[parentOne] = parentTwo
attach(ids, p1, p2, m) == setAt(ids, IF m = p1 THEN p2 ELSE p1, m)

\* the object after unify(nodeOne, nodeTwo)
unify(st, nodeOne, nodeTwo) ==
    LET s == unifyFound(st, nodeOne, nodeTwo)
        p1 == parentOne(st, nodeOne, nodeTwo)
        p2 == parentTwo(st, nodeOne, nodeTwo)
        m == mergedRoot(st, nodeOne, nodeTwo)
    IN  IF ~unifyMerges(st, nodeOne, nodeTwo)
        THEN ufFind(s, nodeOne)
        ELSE [s EXCEPT !.id = attach(s.id, p1, p2, m),
                       !.componentLength =
                           setAt(s.componentLength, m,
                                 plus(lengthAt(s.componentLength, p2),
                                      lengthAt(s.componentLength, p1))),
                       !.numComponents = s.numComponents - 1]

ufSize(st) == st.numNodes

\* components() answered with the number of nodes
componentsAsSize(st) == st.numNodes

components(st) == st.numComponents

\* componentSize that reads the length stored at the node itself
componentSizeAtNode(st, node) == lengthAt(st.componentLength, node)

\* the value componentSize(node) returns; the object afterwards is ufFind(st, node)
componentSize(st, node) == lengthAt(st.componentLength, ufFindRoot(st, node))

\* connected(nodeOne, nodeTwo) evaluates find(nodeOne) first, then find(nodeTwo)
connectedThrows(nodeOne, nodeTwo) == ufFindThrows(nodeOne) \/ ufFindThrows(nodeTwo)

connected(st, nodeOne, nodeTwo) ==
    ufFindRoot(st, nodeOne) = ufFindRoot(ufFind(st, nodeOne), nodeTwo)

\* the object after connected(nodeOne, nodeTwo), thrown or not: a throw of
\* find(nodeOne) comes before any write, a throw of find(nodeTwo) after the
\* path compression of find(nodeOne)
connectedState(st, nodeOne, nodeTwo) ==
    IF ufFindThrows(nodeOne) THEN st
    ELSE IF ufFindThrows(nodeTwo) THEN ufFind(st, nodeOne)
    ELSE ufFind(ufFind(st, nodeOne), nodeTwo)

\* ------------------------------------------------------ UnionFind: caller's view
\* the partition generated by the pairs passed to unify so far: every node
\* is labelled with the smallest node of its class
Unjoined(n) == [x \in 0..n - 1 |-> x]

Join(j, a, b) ==
    IF a \in DOMAIN j /\ b \in DOMAIN j
    THEN LET lo == IF j[a] < j[b] THEN j[a] ELSE j[b]
         IN  [x \in DOMAIN j |-> IF j[x] = j[a] \/ j[x] = j[b] THEN lo ELSE j[x]]
    ELSE j

\* outcome of a UnionFind call: name, arguments, whether it threw, the node or
\* number returned, the boolean returned, whether a unify merged, whether
\* the call repeats the call before it, and whether it rewrote a parent
UCall(op, a, b, err, val, flag, merged, again, moved) ==
    [op |-> op, a |-> a, b |-> b, err |-> err, val |-> val, flag |-> flag,
     merged |-> merged, again |-> again, moved |-> moved]

\* outcome of a constructor call
UNew(n, err) == UCall("new", n, NoNode, err, NoNode, FALSE, FALSE, FALSE, FALSE)

\* outcome of a call on the object, made after the call recorded in ulast
UOutcome(op, a, b, err, val, flag, merged) ==
    UCall(op, a, b, err, val, flag, merged,
          ulast.op = op /\ ulast.a = a /\ ulast.b = b /\ ~ulast.err,
          id' # id)

\* no UnionFind object has been asked for
UFIdle ==
    /\ id = <<>>
    /\ componentLength = <<>>
    /\ numNodes = 0
    /\ numComponents = 0
    /\ joined = <<>>
    /\ ulast = UCall("none", NoNode, NoNode, FALSE, NoNode, FALSE, FALSE, FALSE, FALSE)

\* ------------------------------------------------------ caller's view
\* multiset of the elements handed to the heap and not yet handed back
EmptyBag == [v \in Values |-> 0]

BagAdd(b, v) == [b EXCEPT ![v] = @ + 1]

BagRemove(b, v) ==
    IF v \in DOMAIN b /\ b[v] > 0 THEN [b EXCEPT ![v] = @ - 1] ELSE b

RECURSIVE BagOfSeq(_)
BagOfSeq(s) == IF s = <<>> THEN EmptyBag ELSE BagAdd(BagOfSeq(Tail(s)), Head(s))

\* outcome of the latest call: its name, argument, whether it threw and what it returned
Outcome(op, arg, err, val, flag) ==
    [op |-> op, arg |-> arg, err |-> err, val |-> val, flag |-> flag,
     sank |-> FALSE, swam |-> FALSE]

\* the same, for a call that ran repair passes: did the sink pass (bubbleDown)
\* and the swim pass (bubbleUp) move anything
Repaired(op, arg, val, sank, swam) ==
    [op |-> op, arg |-> arg, err |-> FALSE, val |-> val, flag |-> FALSE,
     sank |-> sank, swam |-> swam]

BulkInputs == UNION {[1..n -> Values] : n \in 0..MaxBulk}

DrainInputs == UNION {[1..n -> Values] : n \in 0..MaxDrain}

Install(st) ==
    /\ heap' = st.heap
    /\ heapIndex' = st.heapIndex
    /\ heapCapacity' = st.heapCapacity
    /\ heapSize' = st.heapSize

object == <<heap, heapIndex, heapCapacity, heapSize>>

\* the heap's fields as the constructor leaves them, and what the caller knows then
Built(st, elements) ==
    /\ heap = st.heap
    /\ heapIndex = st.heapIndex
    /\ heapCapacity = st.heapCapacity
    /\ heapSize = st.heapSize
    /\ input = elements
    /\ bag = BagOfSeq(elements)
    /\ last = Outcome("new", 0, FALSE, 0, FALSE)
    /\ polled = <<>>
    /\ calls = 0

InstallPlain(st) ==
    /\ pheap' = st.heap
    /\ pheapCapacity' = st.heapCapacity
    /\ pheapSize' = st.heapSize

\* the BinaryHeap's fields as its constructor leaves them, and what the caller
\* knows then
PlainBuilt(st, elements) ==
    /\ pheap = st.heap
    /\ pheapCapacity = st.heapCapacity
    /\ pheapSize = st.heapSize
    /\ pinput = elements
    /\ pbag = BagOfSeq(elements)
    /\ plast = Outcome("new", 0, FALSE, 0, FALSE)
    /\ pcalls = 0

\* no BinaryHeap object has been asked for
PlainIdle ==
    /\ pheap = EmptyArray
    /\ pheapCapacity = 0
    /\ pheapSize = 0
    /\ pinput = <<>>
    /\ pbag = EmptyBag
    /\ plast = Outcome("none", 0, FALSE, 0, FALSE)
    /\ pcalls = 0

\* a constructed BinaryHeapQuickRemovals, no UnionFind and no BinaryHeap
Constructed(st, elements) == Built(st, elements) /\ UFIdle /\ PlainIdle

InitEmpty == Constructed(constructEmpty, <<>>)

InitBulk == \E elements \in BulkInputs : Constructed(constructFrom(elements), elements)

Init == InitEmpty \/ InitBulk

InitDrain == \E elements \in DrainInputs : Constructed(constructFrom(elements), elements)

AddStep(x) ==
    /\ Install(add(This, x))
    /\ bag' = BagAdd(bag, x)
    /\ last' = Repaired("add", x, 0, FALSE, addSwam(This, x).heap # addPlaced(This, x).heap)
    /\ polled' = <<>>
    /\ calls' = calls + 1
    /\ UNCHANGED input
    /\ UNCHANGED ufVars

PollStep ==
    /\ IF pollThrows(This)
       THEN /\ UNCHANGED <<object, bag, polled, calls>>
            /\ last' = Outcome("poll", 0, TRUE, 0, FALSE)
       ELSE /\ Install(poll(This))
            /\ bag' = BagRemove(bag, At(heap, 0))
            /\ last' = Repaired("poll", 0, At(heap, 0),
                                 poll(This).heap # pollSwapped(This).heap, FALSE)
            /\ polled' = Append(polled, At(heap, 0))
            /\ calls' = calls + 1
    /\ UNCHANGED input
    /\ UNCHANGED ufVars

RemoveStep(x) ==
    /\ IF removeThrows(This, x)
       THEN /\ UNCHANGED <<object, bag, polled, calls>>
            /\ last' = Outcome("remove", x, TRUE, 0, FALSE)
       ELSE /\ Install(remove(This, x))
            /\ bag' = BagRemove(bag, x)
            /\ last' = LET p == Head(find(This, x))
                       IN  Repaired("remove", x, x,
                               removeAtSank(This, p, x).heap # removeAtSwapped(This, p, x).heap,
                               removeAt(This, p, x).heap # removeAtSank(This, p, x).heap)
            /\ polled' = <<>>
            /\ calls' = calls + 1
    /\ UNCHANGED input
    /\ UNCHANGED ufVars

ClearStep ==
    /\ Install(clear(This))
    /\ bag' = EmptyBag
    /\ last' = Outcome("clear", 0, FALSE, 0, FALSE)
    /\ polled' = <<>>
    /\ calls' = calls + 1
    /\ UNCHANGED input
    /\ UNCHANGED ufVars

Add(x) == calls < MaxCalls /\ AddStep(x) /\ UNCHANGED plainVars

Poll == (calls < MaxCalls \/ pollThrows(This)) /\ PollStep /\ UNCHANGED plainVars

Remove(x) ==
    (calls < MaxCalls \/ removeThrows(This, x)) /\ RemoveStep(x) /\ UNCHANGED plainVars

Clear == calls < MaxCalls /\ ClearStep /\ UNCHANGED plainVars

PeekStep ==
    /\ last' = IF peekThrows(This)
               THEN Outcome("peek", 0, TRUE, 0, FALSE)
               ELSE Outcome("peek", 0, FALSE, peekValue(This), FALSE)
    /\ UNCHANGED <<object, bag, input, polled, calls>>
    /\ UNCHANGED ufVars

ContainsStep(x) ==
    /\ last' = Outcome("contains", x, FALSE, 0, contains(This, x))
    /\ UNCHANGED <<object, bag, input, polled, calls>>
    /\ UNCHANGED ufVars

SizeStep ==
    /\ last' = Outcome("size", 0, FALSE, size(This), FALSE)
    /\ UNCHANGED <<object, bag, input, polled, calls>>
    /\ UNCHANGED ufVars

IsEmptyStep ==
    /\ last' = Outcome("isEmpty", 0, FALSE, 0, isEmpty(This))
    /\ UNCHANGED <<object, bag, input, polled, calls>>
    /\ UNCHANGED ufVars

Peek == PeekStep /\ UNCHANGED plainVars

Contains(x) == ContainsStep(x) /\ UNCHANGED plainVars

Size == SizeStep /\ UNCHANGED plainVars

IsEmpty == IsEmptyStep /\ UNCHANGED plainVars

\* every operation of the class, clear included
Next ==
    \/ \E x \in Values : Add(x)
    \/ Poll
    \/ Peek
    \/ \E x \in Values : Remove(x)
    \/ \E x \in Values : Contains(x)
    \/ Size
    \/ IsEmpty
    \/ Clear

Spec == Init /\ [][Next]_vars

\* sequences of add/poll/remove calls, with the read-only calls in between
NextMutate ==
    \/ \E x \in Values : Add(x)
    \/ Poll
    \/ Peek
    \/ \E x \in Values : Remove(x)
    \/ \E x \in Values : Contains(x)
    \/ Size
    \/ IsEmpty

SpecMutate == Init /\ [][NextMutate]_vars

\* a freshly constructed heap drained by successive poll() calls
NextDrain == PollStep /\ UNCHANGED plainVars

SpecDrain == InitDrain /\ [][NextDrain]_vars

\* ------------------------------------------------------ bulk construction
\* an input sequence is at hand and no object has been built from it yet
InitInput ==
    /\ \E elements \in DrainInputs : input = elements
    /\ heap = EmptyArray
    /\ heapIndex = EmptyIndex
    /\ heapCapacity = 0
    /\ heapSize = 0
    /\ bag = EmptyBag
    /\ last = Outcome("none", 0, FALSE, 0, FALSE)
    /\ polled = <<>>
    /\ calls = 0
    /\ UFIdle
    /\ PlainIdle

\* new BinaryHeapQuickRemovals(input)
Build ==
    /\ last.op = "none"
    /\ Install(constructFrom(input))
    /\ bag' = BagOfSeq(input)
    /\ last' = Outcome("new", 0, FALSE, 0, FALSE)
    /\ UNCHANGED <<input, polled, calls>>
    /\ UNCHANGED ufVars
    /\ UNCHANGED plainVars

NextBuild == Build

SpecBuild == InitInput /\ [][NextBuild]_vars

\* ------------------------------------------------------ BinaryHeap: the calls
plainObject == <<pheap, pheapCapacity, pheapSize>>

PAddStep(x) ==
    /\ InstallPlain(bhAdd(Plain, x))
    /\ pbag' = BagAdd(pbag, x)
    /\ plast' = Repaired("add", x, 0, FALSE,
                         bhAddSwam(Plain, x).heap # bhAddPlaced(Plain, x).heap)
    /\ pcalls' = pcalls + 1
    /\ UNCHANGED pinput

PPollStep ==
    /\ IF bhPollThrows(Plain)
       THEN /\ UNCHANGED <<plainObject, pbag, pcalls>>
            /\ plast' = Outcome("poll", 0, TRUE, 0, FALSE)
       ELSE /\ InstallPlain(bhPoll(Plain))
            /\ pbag' = BagRemove(pbag, At(pheap, 0))
            /\ plast' = Repaired("poll", 0, At(pheap, 0),
                                 bhPoll(Plain).heap # bhPollSwapped(Plain).heap, FALSE)
            /\ pcalls' = pcalls + 1
    /\ UNCHANGED pinput

PRemoveStep(x) ==
    /\ IF bhRemoveThrows(Plain, x)
       THEN /\ UNCHANGED <<plainObject, pbag, pcalls>>
            /\ plast' = Outcome("remove", x, TRUE, 0, FALSE)
       ELSE /\ InstallPlain(bhRemove(Plain, x))
            /\ pbag' = BagRemove(pbag, x)
            /\ plast' = LET i == bhFind(Plain, x)
                        IN  Repaired("remove", x, At(pheap, i),
                                bhRemoteAt(Plain, i).heap # bhRemoteAtSwam(Plain, i).heap,
                                bhRemoteAtSwam(Plain, i).heap # bhRemoteAtSwapped(Plain, i).heap)
            /\ pcalls' = pcalls + 1
    /\ UNCHANGED pinput

PClearStep ==
    /\ InstallPlain(bhClear(Plain))
    /\ pbag' = EmptyBag
    /\ plast' = Outcome("clear", 0, FALSE, 0, FALSE)
    /\ pcalls' = pcalls + 1
    /\ UNCHANGED pinput

PPeekStep ==
    /\ plast' = IF bhPeekThrows(Plain)
                THEN Outcome("peek", 0, TRUE, 0, FALSE)
                ELSE Outcome("peek", 0, FALSE, bhPeekValue(Plain), FALSE)
    /\ UNCHANGED <<plainObject, pbag, pinput, pcalls>>

PContainsStep(x) ==
    /\ plast' = Outcome("contains", x, FALSE, 0, bhContains(Plain, x))
    /\ UNCHANGED <<plainObject, pbag, pinput, pcalls>>

PSizeStep ==
    /\ plast' = Outcome("size", 0, FALSE, bhSize(Plain), FALSE)
    /\ UNCHANGED <<plainObject, pbag, pinput, pcalls>>

PIsEmptyStep ==
    /\ plast' = Outcome("isEmpty", 0, FALSE, 0, bhIsEmpty(Plain))
    /\ UNCHANGED <<plainObject, pbag, pinput, pcalls>>

\* ------------------------------------------------------ the two heaps, call by call
\* one object of each class, built from the same input (or from none)
InitPair ==
    /\ UFIdle
    /\ \/ Built(constructEmpty, <<>>) /\ PlainBuilt(bhConstructEmpty, <<>>)
       \/ \E elements \in BulkInputs :
             /\ Built(constructFrom(elements), elements)
             /\ PlainBuilt(bhConstructFrom(elements), elements)

\* both objects may still complete a call
PairBudget == calls < MaxCalls /\ pcalls < MaxCalls

BothAdd(x) == PairBudget /\ AddStep(x) /\ PAddStep(x)

BothPoll ==
    /\ PairBudget \/ (pollThrows(This) /\ bhPollThrows(Plain))
    /\ PollStep
    /\ PPollStep

BothRemove(x) ==
    /\ PairBudget \/ (removeThrows(This, x) /\ bhRemoveThrows(Plain, x))
    /\ RemoveStep(x)
    /\ PRemoveStep(x)

BothClear == PairBudget /\ ClearStep /\ PClearStep

BothPeek == PeekStep /\ PPeekStep

BothContains(x) == ContainsStep(x) /\ PContainsStep(x)

BothSize == SizeStep /\ PSizeStep

BothIsEmpty == IsEmptyStep /\ PIsEmptyStep

\* the same sequence of add/poll/peek/remove/contains/size/isEmpty calls on both
NextPair ==
    \/ \E x \in Values : BothAdd(x)
    \/ BothPoll
    \/ BothPeek
    \/ \E x \in Values : BothRemove(x)
    \/ \E x \in Values : BothContains(x)
    \/ BothSize
    \/ BothIsEmpty

SpecPair == InitPair /\ [][NextPair]_vars

\* the same, with clear
NextPairAll ==
    \/ \E x \in Values : BothAdd(x)
    \/ BothPoll
    \/ BothPeek
    \/ \E x \in Values : BothRemove(x)
    \/ \E x \in Values : BothContains(x)
    \/ BothSize
    \/ BothIsEmpty
    \/ BothClear

SpecPairAll == InitPair /\ [][NextPairAll]_vars

\* ------------------------------------------------------ UnionFind: the calls
\* the UnionFind object after the step
SelfAfter == [id |-> id', componentLength |-> componentLength',
              numNodes |-> numNodes', numComponents |-> numComponents']

InstallUF(st) ==
    /\ id' = st.id
    /\ componentLength' = st.componentLength
    /\ numNodes' = st.numNodes
    /\ numComponents' = st.numComponents

\* sizes handed to the constructor, the refused ones included
UFSizes == (0 - 1)..MaxNodes

\* node arguments of the calls: the nodes of the object, and a negative one
Nodes == (0 - 1)..(numNodes - 1)

\* new UnionFind(n): a refused size leaves no object behind
InitUF ==
    /\ Built(constructEmpty, <<>>)
    /\ PlainIdle
    /\ \E n \in UFSizes :
          IF ufConstructThrows(n)
          THEN /\ id = <<>>
               /\ componentLength = <<>>
               /\ numNodes = 0
               /\ numComponents = 0
               /\ joined = <<>>
               /\ ulast = UNew(n, TRUE)
          ELSE /\ id = ufConstruct(n).id
               /\ componentLength = ufConstruct(n).componentLength
               /\ numNodes = ufConstruct(n).numNodes
               /\ numComponents = ufConstruct(n).numComponents
               /\ joined = Unjoined(n)
               /\ ulast = UNew(n, FALSE)

\* an object exists: the constructor did not throw
Exists == numNodes > 0

Find(node) ==
    /\ Exists
    /\ IF ufFindThrows(node)
       THEN /\ InstallUF(Self)
            /\ ulast' = UOutcome("find", node, NoNode, TRUE, NoNode, FALSE, FALSE)
       ELSE /\ InstallUF(ufFind(Self, node))
            /\ ulast' = UOutcome("find", node, NoNode, FALSE, ufFindRoot(Self, node),
                                 FALSE, FALSE)
    /\ UNCHANGED joined
    /\ UNCHANGED heapVars
    /\ UNCHANGED plainVars

Unify(nodeOne, nodeTwo) ==
    /\ Exists
    /\ IF unifyThrows(nodeOne, nodeTwo)
       THEN /\ InstallUF(Self)
            /\ ulast' = UOutcome("unify", nodeOne, nodeTwo, TRUE, NoNode, FALSE, FALSE)
            /\ UNCHANGED joined
       ELSE /\ InstallUF(unify(Self, nodeOne, nodeTwo))
            /\ ulast' = UOutcome("unify", nodeOne, nodeTwo, FALSE,
                                 unifyRoot(Self, nodeOne, nodeTwo), FALSE,
                                 unifyMerges(Self, nodeOne, nodeTwo))
            /\ joined' = Join(joined, nodeOne, nodeTwo)
    /\ UNCHANGED heapVars
    /\ UNCHANGED plainVars

ComponentSize(node) ==
    /\ Exists
    /\ IF ufFindThrows(node)
       THEN /\ InstallUF(Self)
            /\ ulast' = UOutcome("componentSize", node, NoNode, TRUE, NoNode, FALSE, FALSE)
       ELSE /\ InstallUF(ufFind(Self, node))
            /\ ulast' = UOutcome("componentSize", node, NoNode, FALSE,
                                 componentSize(Self, node), FALSE, FALSE)
    /\ UNCHANGED joined
    /\ UNCHANGED heapVars
    /\ UNCHANGED plainVars

Connected(nodeOne, nodeTwo) ==
    /\ Exists
    /\ InstallUF(connectedState(Self, nodeOne, nodeTwo))
    /\ ulast' = IF connectedThrows(nodeOne, nodeTwo)
                THEN UOutcome("connected", nodeOne, nodeTwo, TRUE, NoNode, FALSE, FALSE)
                ELSE UOutcome("connected", nodeOne, nodeTwo, FALSE, NoNode,
                              connected(Self, nodeOne, nodeTwo), FALSE)
    /\ UNCHANGED joined
    /\ UNCHANGED heapVars
    /\ UNCHANGED plainVars

USize ==
    /\ Exists
    /\ UNCHANGED <<id, componentLength, numNodes, numComponents, joined>>
    /\ ulast' = UOutcome("size", NoNode, NoNode, FALSE, ufSize(Self), FALSE, FALSE)
    /\ UNCHANGED heapVars
    /\ UNCHANGED plainVars

Components ==
    /\ Exists
    /\ UNCHANGED <<id, componentLength, numNodes, numComponents, joined>>
    /\ ulast' = UOutcome("components", NoNode, NoNode, FALSE, components(Self), FALSE, FALSE)
    /\ UNCHANGED heapVars
    /\ UNCHANGED plainVars

\* every operation of UnionFind, on every object a constructor call can give
NextUF ==
    \/ \E node \in Nodes : Find(node)
    \/ \E nodeOne \in Nodes : \E nodeTwo \in Nodes : Unify(nodeOne, nodeTwo)
    \/ \E node \in Nodes : ComponentSize(node)
    \/ \E nodeOne \in Nodes : \E nodeTwo \in Nodes : Connected(nodeOne, nodeTwo)
    \/ USize
    \/ Components

SpecUF == InitUF /\ [][NextUF]_vars

\* node arguments that are not negative: the nodes of the object and the
\* first ids past them
WideNodes == 0..(numNodes - 1 + MaxBeyond)

\* every operation of UnionFind, called with non-negative ids, ids >= n included
NextUFWide ==
    \/ \E node \in WideNodes : Find(node)
    \/ \E nodeOne \in WideNodes : \E nodeTwo \in WideNodes : Unify(nodeOne, nodeTwo)
    \/ \E node \in WideNodes : ComponentSize(node)
    \/ \E nodeOne \in WideNodes : \E nodeTwo \in WideNodes : Connected(nodeOne, nodeTwo)
    \/ USize
    \/ Components

\* the objects that are called with out-of-range ids
InitUFWide == InitUF /\ numNodes \in 1..MaxWide

SpecUFWide == InitUFWide /\ [][NextUFWide]_vars

\* ------------------------------------------------------ vocabulary of the claims
\* the occupied slots heap[0..size-1]
Occupied(n) == {p \in Positions : 0 <= p /\ p < n}

\* v is held in one of the occupied slots
Held(h, n, v) == \E p \in Occupied(n) : h[p] = v

\* multiset of the elements in heap[0..size-1]
HeapBag(h, n) == [v \in Values |-> Cardinality({p \in Occupied(n) : h[p] = v})]

BagHas(b) == {v \in Values : b[v] > 0}

\* smallest element of a multiset (Undefined for the empty one)
BagMin(b) ==
    IF BagHas(b) = {} THEN Undefined
    ELSE CHOOSE v \in BagHas(b) : \A w \in BagHas(b) : v <= w

\* the positions the index records for v
Recorded(idx, v) == IF v \in DOMAIN idx THEN SeqRange(idx[v]) ELSE {}

Observers == {"peek", "contains", "size", "isEmpty"}

\* ------------------------------------------------------ C1
\* C1: whenever contains(v) has just been called, it returned true if and only
\* if v is held in one of the occupied slots heap[0..size-1].
C1_ContainsIffHeld ==
    last.op = "contains" => (last.flag <=> Held(heap, heapSize, last.arg))

\* ------------------------------------------------------ C2
\* C2: a successful remove(x) returns x, and the multiset of heap[0..size-1]
\* after the call is the multiset before it minus exactly one copy of x.
C2_RemoveTakesOneCopy ==
    [][(last'.op = "remove" /\ ~last'.err) =>
          /\ last'.val = last'.arg
          /\ HeapBag(heap, heapSize)[last'.arg] > 0
          /\ HeapBag(heap', heapSize') = BagRemove(HeapBag(heap, heapSize), last'.arg)]_vars

\* ------------------------------------------------------ C3
\* C3: remove(x) throws whenever x is in no occupied slot, and the call that
\* threw left size, storage and index as they were.
C3_RemoveAbsentThrows ==
    [][(last'.op = "remove" /\ ~Held(heap, heapSize, last'.arg)) =>
          /\ last'.err
          /\ UNCHANGED <<heap, heapIndex, heapSize>>]_vars

\* ------------------------------------------------------ C4
\* C4: on a non-empty heap poll() returns the smallest of the elements added or
\* bulk-loaded and not yet polled or removed, takes exactly one copy of it out
\* of the heap, and peek() returns that same element.
C4_PollReturnsMinimum ==
    [][(heapSize > 0 /\ last'.op \in {"poll", "peek"}) =>
          /\ ~last'.err
          /\ last'.val = BagMin(bag)
          /\ last'.op = "poll" =>
                /\ bag' = BagRemove(bag, BagMin(bag))
                /\ HeapBag(heap', heapSize') = BagRemove(HeapBag(heap, heapSize), BagMin(bag))]_vars

\* ------------------------------------------------------ C5
\* C5: for every value v the position set recorded in the index for v is
\* exactly { p : 0 <= p < size and heap[p] = v }.
C5_IndexCorrect ==
    \A v \in Values :
        Recorded(heapIndex, v) = {p \in Occupied(heapSize) : heap[p] = v}

\* ------------------------------------------------------ C6
\* C6: for every occupied slot i and each child c in {2i+1, 2i+2} with
\* c < size, heap[i] <= heap[c].
C6_HeapOrder ==
    \A i \in Occupied(heapSize) : \A c \in {2 * i + 1, 2 * i + 2} :
        c < heapSize =>
            /\ heap[i] # Undefined
            /\ heap[c] # Undefined
            /\ heap[i] <= heap[c]

\* a remove that had to move its replacement up, in a heap of three levels
C6_Witness ==
    /\ last.op = "remove" /\ ~last.err /\ last.swam
    /\ heapSize >= 5
    /\ heap[0] < heap[4]

\* ------------------------------------------------------ C7
IsSorted(s) == \A i \in 1..Len(s) - 1 : s[i] <= s[i + 1]

\* C7: the values returned by successive poll() calls on a bulk-built heap
\* are non-decreasing, together with what is still in the heap they are the
\* input as a multiset, and after n = Len(input) polls the heap is empty.
C7_SortedExtraction ==
    /\ IsSorted(polled)
    /\ Len(polled) + heapSize = Len(input)
    /\ \A v \in Values :
          BagOfSeq(polled)[v] + HeapBag(heap, heapSize)[v] = BagOfSeq(input)[v]
    /\ Len(polled) = Len(input) => (isEmpty(This) /\ BagOfSeq(polled) = BagOfSeq(input))

\* a full drain of the longest input, with duplicates, given out of order
C7_Witness ==
    /\ Len(input) = MaxDrain /\ Len(polled) = Len(input)
    /\ ~IsSorted(input)
    /\ \E i \in 1..Len(polled) - 1 : polled[i] = polled[i + 1]
    /\ polled[1] < polled[Len(polled)]
    /\ last.op = "poll" /\ heapSize = 0

\* ------------------------------------------------------ C8
\* C8: after clear() size() is 0, isEmpty() is true, contains(v) is false and
\* remove(v) throws for every v, and the capacity is what it was.
C8_ClearEmptiesAll ==
    [][last'.op = "clear" =>
          /\ size(After) = 0
          /\ isEmpty(After)
          /\ \A v \in Values : ~contains(After, v) /\ removeThrows(After, v)
          /\ heapCapacity' = heapCapacity]_vars

\* ------------------------------------------------------ C9
\* C9: size() goes up by exactly 1 on every add, down by exactly 1 on every
\* poll or remove that does not throw, and peek, contains, size and isEmpty
\* leave size, storage and index unchanged.
C9_SizeConservation ==
    [][/\ last'.op = "add" => heapSize' = heapSize + 1
       /\ (last'.op \in {"poll", "remove"} /\ ~last'.err) => heapSize' = heapSize - 1
       /\ last'.op \in Observers => UNCHANGED <<heap, heapIndex, heapSize>>]_vars

\* a poll and a remove that succeeded, and an add that doubled the capacity
C9_Witness ==
    /\ last.op = "remove" /\ ~last.err
    /\ calls = MaxCalls
    /\ heapCapacity = 2 * Len(input)
    /\ heapSize = Len(input) - 1
    /\ heapSize > 0

\* ------------------------------------------------------ C10
\* C10: with size 0, peek() and poll() throw and leave size, storage and index
\* unchanged.
C10_EmptyThrows ==
    [][(heapSize = 0 /\ last'.op \in {"peek", "poll"}) =>
          /\ last'.err
          /\ UNCHANGED <<heap, heapIndex, heapSize>>]_vars

\* poll() has thrown on a heap that held elements and was emptied
C10_Witness ==
    /\ last.op = "poll" /\ last.err
    /\ heapSize = 0
    /\ calls > 0
    /\ Len(input) > 0

\* ------------------------------------------------------ vocabulary of the UnionFind claims
\* the nodes of the object
NodeIds == 0..numNodes - 1

\* the nodes that are their own parent
Roots(st) == {i \in 0..st.numNodes - 1 : st.id[i] = i}

\* the nodes find sends to the same root as x
ComponentOf(st, x) == {y \in 0..st.numNodes - 1 : ufFindRoot(st, y) = ufFindRoot(st, x)}

RECURSIVE SumLengths(_, _)
SumLengths(len, S) ==
    IF S = {} THEN 0
    ELSE LET i == CHOOSE j \in S : TRUE IN len[i] + SumLengths(len, S \ {i})

\* ------------------------------------------------------ C11
\* C11: for all nodes x and y of the object, connected(x, y) is true if and
\* only if x and y are related by the reflexive-symmetric-transitive closure of
\* the pairs passed to unify so far, and a connected call that has just
\* returned gave that answer.
C11_Connectivity ==
    /\ \A x \in NodeIds : \A y \in NodeIds :
          connected(Self, x, y) <=> joined[x] = joined[y]
    /\ (ulast.op = "connected" /\ ~ulast.err) =>
          (ulast.flag <=> joined[ulast.a] = joined[ulast.b])

\* connected answered true for two nodes neither of which is the other's
\* parent, while a third node is still apart
C11_Witness ==
    /\ ulast.op = "connected" /\ ~ulast.err /\ ulast.flag
    /\ ulast.a # ulast.b
    /\ id[ulast.a] # ulast.b /\ id[ulast.b] # ulast.a
    /\ numComponents > 1
    /\ \E z \in NodeIds : ~connected(Self, ulast.a, z)

\* ------------------------------------------------------ C12
\* C12: components() is the number of nodes i with id[i] = i; it is n after
\* construction, goes down by exactly 1 on a unify of two nodes that were in
\* different components, and no other call changes it.
C12_ComponentCount ==
    /\ [](Exists => components(Self) = Cardinality(Roots(Self)))
    /\ []((ulast.op = "new" /\ ~ulast.err) => components(Self) = ufSize(Self))
    /\ [][components(SelfAfter) =
            IF ulast'.op = "unify" /\ ~ulast'.err
               /\ joined[ulast'.a] # joined[ulast'.b]
            THEN components(Self) - 1
            ELSE components(Self)]_vars

\* every node has been merged into one component, and a unify of two
\* different nodes of it has just returned without merging
C12_Witness ==
    /\ numNodes = MaxNodes
    /\ components(Self) = 1
    /\ ulast.op = "unify" /\ ~ulast.err /\ ~ulast.merged
    /\ ulast.a # ulast.b

\* ------------------------------------------------------ C13
\* C13: componentSize(x) is the number of nodes y with find(y) = find(x), a
\* componentSize call that has just returned gave that number, and the sizes
\* stored at the roots sum to n.
C13_ComponentSize ==
    Exists =>
        /\ \A x \in NodeIds : componentSize(Self, x) = Cardinality(ComponentOf(Self, x))
        /\ (ulast.op = "componentSize" /\ ~ulast.err) =>
              ulast.val = Cardinality(ComponentOf(Self, ulast.a))
        /\ SumLengths(componentLength, Roots(Self)) = numNodes

\* componentSize answered for a node below the root of a component of three,
\* beside a node whose stored length is left over from when it was a root
C13_Witness ==
    /\ ulast.op = "componentSize" /\ ~ulast.err
    /\ ulast.val >= 3
    /\ id[ulast.a] # ulast.a
    /\ \E i \in NodeIds : id[i] # i /\ componentLength[i] > 1

\* a unify(a, b) that has just returned, having merged the components of a and b
Merging == ulast'.op = "unify" /\ ~ulast'.err /\ joined[ulast'.a] # joined[ulast'.b]

\* number of nodes in the component of x
TrueSize(st, x) == Cardinality(ComponentOf(st, x))

\* the step attached root lo under root hi, which survives with the summed
\* size, is returned, and is what find reports for both arguments
AttachedUnder(lo, hi) ==
    /\ id'[lo] = hi
    /\ id'[hi] = hi
    /\ componentSize(SelfAfter, hi) = TrueSize(Self, lo) + TrueSize(Self, hi)
    /\ componentLength'[hi] = TrueSize(Self, lo) + TrueSize(Self, hi)
    /\ ulast'.val = hi
    /\ ufFindRoot(SelfAfter, ulast'.a) = hi
    /\ ufFindRoot(SelfAfter, ulast'.b) = hi

\* ------------------------------------------------------ C14
\* C14: when unify(a, b) merges two components of strictly different sizes,
\* the root of the smaller one is attached under the root of the larger one,
\* the surviving root's size becomes the sum of the two sizes, and unify
\* returns the surviving root, which is find(a) and find(b) afterwards.
C14_UnionBySize ==
    [][(Merging /\ TrueSize(Self, ulast'.a) # TrueSize(Self, ulast'.b)) =>
          IF TrueSize(Self, ulast'.a) > TrueSize(Self, ulast'.b)
          THEN AttachedUnder(ufFindRoot(Self, ulast'.b), ufFindRoot(Self, ulast'.a))
          ELSE AttachedUnder(ufFindRoot(Self, ulast'.a), ufFindRoot(Self, ulast'.b))]_vars

\* unify(a, b) has merged a component of two, rooted at a, with a single node
C14_Witness ==
    /\ ulast.op = "unify" /\ ~ulast.err /\ ulast.merged
    /\ ulast.val = ulast.a
    /\ ulast.a # ulast.b
    /\ componentLength[ulast.val] = 3

\* ------------------------------------------------------ C15
\* C15 as stated: when unify(a, b) merges two components of equal size, the
\* root of b's component is attached under the root of a's component, which
\* survives, is returned and is reported by find.
C15_TieSecondUnderFirst ==
    [][(Merging /\ TrueSize(Self, ulast'.a) = TrueSize(Self, ulast'.b)) =>
          AttachedUnder(ufFindRoot(Self, ulast'.b), ufFindRoot(Self, ulast'.a))]_vars

\* C15 amended: when unify(a, b) merges two components of equal size, the
\* root of a's component is attached under the root of b's component, which
\* survives, is returned and is reported by find.
C15_TieFirstUnderSecond ==
    [][(Merging /\ TrueSize(Self, ulast'.a) = TrueSize(Self, ulast'.b)) =>
          AttachedUnder(ufFindRoot(Self, ulast'.a), ufFindRoot(Self, ulast'.b))]_vars

\* unify(a, b) has merged two components of two nodes each
C15_Witness ==
    /\ ulast.op = "unify" /\ ~ulast.err /\ ulast.merged
    /\ componentLength[ulast.val] = 4
    /\ \E r \in NodeIds : r # ulast.val /\ id[r] = ulast.val /\ componentLength[r] = 2

\* ------------------------------------------------------ C16
\* C16: in every reachable state and for all nodes a and b, a second
\* unify(a, b) after a first one changes neither components() nor any
\* componentSize nor the connected relation, and returns the root find(a)
\* reports; so does a unify call that repeats the call before it.
C16_UnifyTwice ==
    /\ [](\A a \in NodeIds : \A b \in NodeIds :
            LET once == unify(Self, a, b)
                twice == unify(once, a, b)
            IN  /\ components(twice) = components(once)
                /\ \A x \in NodeIds : componentSize(twice, x) = componentSize(once, x)
                /\ \A x \in NodeIds : \A y \in NodeIds :
                      connected(twice, x, y) <=> connected(once, x, y)
                /\ unifyRoot(once, a, b) = ufFindRoot(once, a)
                /\ unifyRoot(once, a, b) = ufFindRoot(twice, a))
    /\ [][(ulast'.op = "unify" /\ ulast'.again /\ ~ulast'.err) =>
            /\ components(SelfAfter) = components(Self)
            /\ \A x \in NodeIds : componentSize(SelfAfter, x) = componentSize(Self, x)
            /\ \A x \in NodeIds : \A y \in NodeIds :
                  connected(SelfAfter, x, y) <=> connected(Self, x, y)
            /\ ulast'.val = ufFindRoot(Self, ulast'.a)
            /\ ulast'.val = ufFindRoot(SelfAfter, ulast'.a)]_vars

\* unify(a, b) has been called again right after unify(a, b), for two
\* different nodes lying below the root of a component of at least three
C16_Witness ==
    /\ ulast.op = "unify" /\ ulast.again /\ ~ulast.err
    /\ ulast.a # ulast.b
    /\ ulast.val # ulast.a /\ ulast.val # ulast.b
    /\ componentLength[ulast.val] >= 3
    /\ components(Self) > 1

\* ------------------------------------------------------ C17
\* the latest call was handed a negative node
NegativeArgument(c) ==
    \/ c.op \in {"find", "componentSize"} /\ c.a < 0
    \/ c.op \in {"unify", "connected"} /\ (c.a < 0 \/ c.b < 0)

\* C17: construction with size <= 0 fails; find, componentSize, connected and
\* unify fail whenever an argument is negative; and a call that failed left
\* id, componentLength, components() and size() as they were.
C17_Validation ==
    /\ []((ulast.op = "new" /\ ulast.a <= 0) => ulast.err)
    /\ [][/\ NegativeArgument(ulast') => ulast'.err
          /\ ulast'.err =>
                /\ UNCHANGED <<id, componentLength>>
                /\ components(SelfAfter) = components(Self)
                /\ ufSize(SelfAfter) = ufSize(Self)]_vars

\* ------------------------------------------------------ vocabulary of C18..C20
\* the index of st records for v exactly the occupied slots of st holding v
IndexCorrectFor(st, v) ==
    Recorded(st.heapIndex, v) = {p \in Occupied(st.heapSize) : st.heap[p] = v}

IndexCorrectIn(st) == \A v \in Values : IndexCorrectFor(st, v)

HeapOrderIn(st) ==
    \A i \in Occupied(st.heapSize) : \A c \in {2 * i + 1, 2 * i + 2} :
        c < st.heapSize =>
            /\ st.heap[i] # Undefined
            /\ st.heap[c] # Undefined
            /\ st.heap[i] <= st.heap[c]

\* heap order and index correctness hold before the step
Consistent == C5_IndexCorrect /\ C6_HeapOrder

\* the elements the step moved out of the occupied slot they were in
Displaced == {heap[p] : p \in {q \in Occupied(heapSize) : heap'[q] # heap[q]}}

\* ------------------------------------------------------ C18
\* C18: from any state in which heap order and index correctness hold, after
\* add(x) the index is exactly correct for x and for every element the
\* bubble-up displaced, and heap order holds.
C18_AddKeepsIndex ==
    [][(Consistent /\ last'.op = "add") =>
          /\ \A v \in {last'.arg} \cup Displaced : IndexCorrectFor(After, v)
          /\ HeapOrderIn(After)]_vars

\* ------------------------------------------------------ C19
\* C19: from any non-empty state in which heap order and index correctness
\* hold, after poll() the index records no position >= the new size (the
\* slot the polled occurrence was moved to included) and is exactly correct
\* for every remaining element.
C19_PollKeepsIndex ==
    [][(Consistent /\ heapSize > 0 /\ last'.op = "poll") =>
          /\ ~last'.err
          /\ \A v \in Values : \A p \in Recorded(heapIndex', v) : p < heapSize'
          /\ IndexCorrectIn(After)]_vars

\* ------------------------------------------------------ C20
\* every position recorded for a value is an occupied slot holding it, and
\* every occupied slot is recorded
Indexed(st) ==
    /\ \A v \in Values : \A p \in Recorded(st.heapIndex, v) :
          p \in Occupied(st.heapSize) /\ st.heap[p] = v
    /\ \A p \in Occupied(st.heapSize) : p \in Recorded(st.heapIndex, st.heap[p])

\* C20: from any state in which heap order and index correctness hold, after
\* a successful remove(x) heap order holds, every position recorded for any
\* value v is < size and holds v, and every occupied slot is recorded; the
\* same is true of removeAt for each recorded occurrence of x.
C20_RemoveKeepsStructure ==
    /\ [](Consistent =>
            \A x \in Values : \A p \in Recorded(heapIndex, x) :
                HeapOrderIn(removeAt(This, p, x)) /\ Indexed(removeAt(This, p, x)))
    /\ [][(Consistent /\ last'.op = "remove" /\ ~last'.err) =>
            HeapOrderIn(After) /\ Indexed(After)]_vars

\* the first call on a bulk-built heap of the largest size was a remove of a
\* value held twice, and its replacement had to sink
C20_Witness ==
    /\ calls = 1
    /\ last.op = "remove" /\ ~last.err /\ last.sank
    /\ Len(input) = MaxBulk
    /\ HeapBag(heap, heapSize)[last.arg] > 0
    /\ heapSize = MaxBulk - 1

\* ------------------------------------------------------ C21
\* C21: right after bulk construction from any input sequence (the empty one
\* included) size is the input length, the occupied slots hold the input as a
\* multiset, heap order holds and the index is exactly correct.
C21_BulkConstruction ==
    last.op = "new" =>
        /\ size(This) = Len(input)
        /\ HeapBag(heap, heapSize) = BagOfSeq(input)
        /\ HeapOrderIn(This)
        /\ IndexCorrectIn(This)

\* a heap just built from the longest input, with duplicates, whose smallest
\* element came last, so that heapify had to move it through every level
C21_Witness ==
    /\ last.op = "new"
    /\ Len(input) = MaxDrain
    /\ \E i \in 1..Len(input) - 1 : input[i] = input[i + 1]
    /\ \A i \in 1..Len(input) - 1 : input[Len(input)] < input[i]
    /\ heap[0] = input[Len(input)]

\* ------------------------------------------------------ C22
\* C22: after every call handed to a BinaryHeapQuickRemovals and to a
\* BinaryHeap built from the same input, the two outcomes are the same: both
\* calls threw, or both returned the same value.
C22_SameOutcome ==
    /\ last.op = plast.op
    /\ last.arg = plast.arg
    /\ last.err = plast.err
    /\ ~last.err => (last.val = plast.val /\ last.flag = plast.flag)

\* ------------------------------------------------------ C23
\* C23: in every state of the plain BinaryHeap reached by add/poll/remove/
\* clear calls, heap[0..size-1] satisfies heap order and holds exactly the
\* elements added and not yet polled, removed or cleared; poll on a non-empty
\* heap returns the smallest of them, contains(v) is true iff v is one of
\* them, and remove(v) throws iff v is none of them.
C23_PlainRefinesQueue ==
    /\ [](HeapOrderIn(Plain) /\ HeapBag(pheap, pheapSize) = pbag)
    /\ [][/\ (plast'.op = "poll" /\ BagHas(pbag) # {}) =>
                (~plast'.err /\ plast'.val = BagMin(pbag))
          /\ plast'.op = "contains" => (plast'.flag <=> pbag[plast'.arg] > 0)
          /\ plast'.op = "remove" => (plast'.err <=> pbag[plast'.arg] = 0)
          /\ (plast'.op = "remove" /\ ~plast'.err) => plast'.val = plast'.arg]_vars

\* two adds on a heap built from the longest input, then a remove whose
\* replacement had to sink
C23_Witness ==
    /\ plast.op = "remove" /\ ~plast.err /\ plast.sank
    /\ pcalls = MaxCalls
    /\ Len(pinput) = MaxBulk
    /\ pheapSize = Len(pinput) + 1
    /\ pbag[plast.arg] > 0

\* ------------------------------------------------------ C24
\* the step left the capacity alone, or it was an add that filled the heap
\* and doubled the capacity
CapacityStep(before, after, call) ==
    \/ after.heapCapacity = before.heapCapacity
    \/ /\ call.op = "add"
       /\ after.heapSize = before.heapCapacity
       /\ after.heapCapacity = 2 * before.heapCapacity

\* C24: in every reachable state of both heaps size <= heapCapacity, and the
\* capacity changes only by doubling on an add that fills the heap; poll,
\* remove and clear never change it.
C24_Capacity ==
    /\ [](size(This) <= heapCapacity /\ bhSize(Plain) <= pheapCapacity)
    /\ [][/\ CapacityStep(This, After, last')
          /\ CapacityStep(Plain, PlainAfter, plast')]_vars

\* ------------------------------------------------------ C25
\* C25: in a successful remove on a heap whose heap order holds, the sink pass
\* and the bubble-up pass do not both move an element, in
\* BinaryHeapQuickRemovals (sink, then bubble-up) and in BinaryHeap
\* (bubble-up, then sink).
C25_OneRepairPass ==
    [][/\ (HeapOrderIn(This) /\ last'.op = "remove" /\ ~last'.err) =>
              ~(last'.sank /\ last'.swam)
       /\ (HeapOrderIn(Plain) /\ plast'.op = "remove" /\ ~plast'.err) =>
              ~(plast'.sank /\ plast'.swam)]_vars

\* both heaps have just removed an element whose replacement had to move up
C25_Witness ==
    /\ last.op = "remove" /\ ~last.err /\ last.swam /\ ~last.sank
    /\ plast.op = "remove" /\ ~plast.err /\ plast.swam /\ ~plast.sank
    /\ heap = pheap
    /\ heapSize >= 5

\* ------------------------------------------------------ C26
\* the nodes on the parent path from x up to and including its root
RECURSIVE PathOf(_, _)
PathOf(ids, x) == IF ids[x] = x THEN {x} ELSE {x} \cup PathOf(ids, ids[x])

\* the root of x's tree
RootOf(ids, x) == CHOOSE r \in PathOf(ids, x) : ids[r] = r

\* C26: find(x) for a node x of the object returns the root of x's tree;
\* afterwards every node that was on the parent path from x to the root has
\* the root as its parent, and nothing else has changed: the parents of the
\* nodes off that path, the connected relation, components() and the
\* componentSize of every node.
C26_FindCompresses ==
    [][(ulast'.op = "find" /\ ~ulast'.err) =>
          LET x == ulast'.a
              r == RootOf(id, x)
          IN  /\ ulast'.val = r
              /\ \A y \in PathOf(id, x) : id'[y] = r
              /\ \A y \in NodeIds \ PathOf(id, x) : id'[y] = id[y]
              /\ DOMAIN id' = DOMAIN id
              /\ \A y \in NodeIds : \A z \in NodeIds :
                    connected(SelfAfter, y, z) <=> connected(Self, y, z)
              /\ components(SelfAfter) = components(Self)
              /\ \A y \in NodeIds : componentSize(SelfAfter, y) = componentSize(Self, y)]_vars

\* find has just rewritten the parent of its argument, which now hangs from
\* the root beside its former parent and a node that was off the path
C26_Witness ==
    /\ ulast.op = "find" /\ ~ulast.err /\ ulast.moved
    /\ id[ulast.a] = ulast.val
    /\ Cardinality({y \in NodeIds : y # ulast.val /\ id[y] = ulast.val}) >= 3

\* ------------------------------------------------------ C27
\* the node reached from x by following id k times
RECURSIVE Ancestor(_, _, _)
Ancestor(ids, x, k) == IF k = 0 THEN x ELSE Ancestor(ids, idAt(ids, x), k - 1)

\* C27: in every state reached by unify/find calls on nodes of the object,
\* following id from any node reaches a node r with id[r] = r in at most
\* n - 1 steps.
C27_Acyclic ==
    \A x \in NodeIds : \E k \in 0..numNodes - 1 :
        /\ Ancestor(id, x, k) \in NodeIds
        /\ id[Ancestor(id, x, k)] = Ancestor(id, x, k)

\* a unify has just hung a tree of two under another root: a parent path
\* of two steps
C27_Witness ==
    /\ ulast.op = "unify" /\ ~ulast.err /\ ulast.merged
    /\ \E x \in NodeIds :
          /\ id[x] # x
          /\ id[id[x]] # id[x]
          /\ id[id[x]] = ulast.val

\* ------------------------------------------------------ C28
\* C28: in every state reached by add/poll/remove/clear calls size() >= 0,
\* and isEmpty() is true exactly when no slot is occupied.
C28_SizeNonNegative ==
    /\ size(This) >= 0
    /\ isEmpty(This) <=> Occupied(heapSize) = {}

\* ------------------------------------------------------ C29
\* C29: whatever non-negative ids (ids >= n included) the calls are given, no
\* call throws, size() stays n, components() is the number of distinct
\* components among the nodes 0..n-1, and for every node i componentSize(i)
\* is the number of nodes in i's component.
C29_OutOfRangeIds ==
    /\ [](ulast.op # "new" => ~ulast.err)
    /\ [](Exists =>
            /\ components(Self) = Cardinality({ufFindRoot(Self, i) : i \in NodeIds})
            /\ \A i \in NodeIds : componentSize(Self, i) = TrueSize(Self, i))
    /\ [][ufSize(SelfAfter) = ufSize(Self)]_vars

WindowOK ==
    /\ DOMAIN heap = Positions
    /\ heapSize \in MinPos + 1 .. MaxPos
    /\ \A v \in DOMAIN heapIndex : SeqRange(heapIndex[v]) \subseteq Positions
====
